---- MODULE Spec2Model ----
(***************************************************************************)
(* find_log_entries.py: the per-file pipeline                              *)
(*     lines of a file -> aggregate_entries -> filter(matches) -> print    *)
(* as a state machine.  A line is the sequence of its characters, a file   *)
(* is the sequence of lines that iterating over open(filename) delivers.   *)
(***************************************************************************)
EXTENDS Integers, Sequences, FiniteSets, TLC

VARIABLES
    files,          \* contents of the files named on the command line, in order
    regexes,        \* the compiled patterns, in command-line order
    file_no,        \* 1-based position of the file being processed (0: none yet)
    line_no,        \* enumerate(lines, 1): ordinal of the last line consumed
    buffer,         \* aggregate_entries: the lines accumulated so far
    entry_line_no,  \* aggregate_entries: start line of the buffer (0: unbound)
    entry,          \* the (n, lines) tuple most recently handed downstream
    yielded,        \* history: every tuple aggregate_entries has yielded
    output,         \* history: every match report printed to stdout
    pc              \* where the pull-driven pipeline stands

vars == <<files, regexes, file_no, line_no, buffer, entry_line_no, entry,
          yielded, output, pc>>

-----------------------------------------------------------------------------
(* Bounds of the model *)

MaxLines == 5        \* lines of a single file; of k files together, k - 1 fewer
MaxFiles == 2        \* number of files on the command line

\* The sanity bound of assert len(buffer) < 5000, scaled down so that inputs
\* of MaxLines lines reach it and pass it.
MaxBuffer == 3

-----------------------------------------------------------------------------
(* Characters and lines *)

NL == "\n"
Whitespace == {" ", NL, "\t"}

BlankLine == <<" ", NL>>
TextLine == <<"a", NL>>
EndLine == <<"b", "|", "#", "]", " ", NL>>
LastEndLine == <<"|", "#", "|", "#", "]">>

\* lines every position of a file can hold
LineSet == {BlankLine, TextLine, EndLine}
\* a file's last line may lack its line terminator
LastLineSet == LineSet \cup {LastEndLine}

\* the pattern lists: literal texts, one of which spans a line boundary
RegexLists == { <<>>, << <<"a">>, <<"b">> >>, << <<"a", NL, "b">> >> }

-----------------------------------------------------------------------------
(* Inputs *)

Seqs(S, n) == UNION {[1..k -> S] : k \in 0..n}

\* the files of at most n lines
FilesUpTo(n) ==
    {f \in Seqs(LastLineSet, n) : \A i \in 1..Len(f) - 1 : f[i] \in LineSet}

RECURSIVE FileLists(_, _)
\* the lists of exactly k files that hold at most n lines together
FileLists(k, n) ==
    IF k = 0 THEN {<<>>}
    ELSE UNION {{<<f>> \o rest : rest \in FileLists(k - 1, n - Len(f))} :
                f \in FilesUpTo(n)}

Inputs == UNION {FileLists(k, MaxLines - (k - 1)) : k \in 1..MaxFiles}

-----------------------------------------------------------------------------
(* The regular expressions *)

\* faulty variant: only the bare line terminator counts as blank
isspace_newline(line) == line = <<NL>>

\* str.isspace(): at least one character, and every character is whitespace
isspace(line) ==
    Len(line) > 0 /\ \A i \in 1..Len(line) : line[i] \in Whitespace

\* faulty variant: r'.*|#\]', the bar unescaped: the alternative '.*' matches any line
rx_end_unescaped(line) == TRUE

\* rx_end.match(line), rx_end = re.compile(r'.*\|#\]'): anchored at the start
\* of the line, '.' matches any character but the line terminator
rx_end(line) ==
    \E i \in 1..Len(line) - 2 :
        /\ line[i] = "|" /\ line[i + 1] = "#" /\ line[i + 2] = "]"
        /\ \A j \in 1..i - 1 : line[j] # NL

\* regex.search(l) for a literal pattern: the pattern occurs somewhere in l
search(regex, l) ==
    \E i \in 0..Len(l) - Len(regex) :
        \A k \in 1..Len(regex) : l[i + k] = regex[k]

RECURSIVE Join(_)
\* the text of the lines taken together
Join(lines) == IF lines = <<>> THEN <<>> ELSE Head(lines) \o Join(Tail(lines))

\* faulty variant: only the first line of the entry is searched
any_line_first(regex, lines) == Len(lines) > 0 /\ search(regex, lines[1])

\* faulty variant: the text of the whole entry is searched at once
any_line_joined(regex, lines) == search(regex, Join(lines))

\* any(regex.search(l) for l in entry[1])
any_line(regex, lines) == \E i \in 1..Len(lines) : search(regex, lines[i])

RECURSIVE matches_from(_, _, _)
\* the for loop of matches, from the k-th regex on
matches_from(rs, e, k) ==
    IF k > Len(rs) THEN TRUE
    ELSE IF ~any_line(rs[k], e.lines) THEN FALSE
    ELSE matches_from(rs, e, k + 1)

\* the closure make_regex_filter(regexes) returns
matches(rs, e) == matches_from(rs, e, 1)

-----------------------------------------------------------------------------
(* aggregate_entries *)

\* faulty variant: whitespace-only lines are skipped wherever they arrive
appends_nonblank(buf, line) == ~isspace(line)

\* if len(buffer) > 0 or not line.isspace()
appends(buf, line) == Len(buf) > 0 \/ ~isspace(line)

\* faulty variant: the bound is tested one line late
assert_ok_late(buf) == Len(buf) <= MaxBuffer

\* faulty variant: the assertion is gone
assert_ok_off(buf) == TRUE

\* assert len(buffer) < 5000
assert_ok(buf) == Len(buf) < MaxBuffer

\* faulty variant: the start line is recorded at every append
start_line_every(buf, n, old) == n

\* if len(buffer) == 0: entry_line_no = line_no
start_line(buf, n, old) == IF Len(buf) = 0 THEN n ELSE old

\* faulty variant: the buffer is not reset after the yield
fresh_buffer_keep(buf) == buf

\* buffer = [] after the yield
fresh_buffer(buf) == <<>>

\* faulty variant: the unterminated tail is yielded when the input ends
exhausted_flush(ys, f, n, buf) ==
    IF buf = <<>> THEN ys
    ELSE Append(ys, [file |-> f, n |-> n, lines |-> buf, at |-> n + Len(buf) - 1])

\* the for loop ends without a yield: what has been yielded stays as it is
exhausted(ys, f, n, buf) == ys

NoEntry == [n |-> 0, lines |-> <<>>]

Init ==
    /\ files \in Inputs
    /\ regexes \in RegexLists
    /\ file_no = 0
    /\ line_no = 0
    /\ buffer = <<>>
    /\ entry_line_no = 0
    /\ entry = NoEntry
    /\ yielded = <<>>
    /\ output = <<>>
    /\ pc = "open"

\* for filename in filenames: build the generators for the next file
OpenFile ==
    /\ pc = "open"
    /\ file_no < Len(files)
    /\ file_no' = file_no + 1
    /\ line_no' = 0
    /\ buffer' = <<>>
    /\ entry_line_no' = 0
    /\ entry' = NoEntry
    /\ pc' = "pull"
    /\ UNCHANGED <<files, regexes, yielded, output>>

\* the for loop over the file names is exhausted
Finish ==
    /\ pc = "open"
    /\ file_no = Len(files)
    /\ pc' = "done"
    /\ UNCHANGED <<files, regexes, file_no, line_no, buffer, entry_line_no,
                   entry, yielded, output>>

\* one iteration of the for loop of aggregate_entries
ConsumeLine ==
    /\ pc = "pull"
    /\ line_no < Len(files[file_no])
    /\ LET line == files[file_no][line_no + 1]
           app == appends(buffer, line)
           eln == IF app THEN start_line(buffer, line_no + 1, entry_line_no)
                  ELSE entry_line_no
           buf == IF app THEN Append(buffer, line) ELSE buffer
       IN  /\ line_no' = line_no + 1
           /\ entry_line_no' = eln
           /\ IF app /\ ~assert_ok(buffer)
              THEN /\ pc' = "AssertionError"
                   /\ UNCHANGED <<buffer, entry, yielded>>
              ELSE /\ buffer' = buf
                   /\ IF ~rx_end(line)
                      THEN pc' = "pull" /\ UNCHANGED <<entry, yielded>>
                      ELSE IF eln = 0
                      THEN pc' = "UnboundLocalError" /\ UNCHANGED <<entry, yielded>>
                      ELSE /\ pc' = "yield"
                           /\ entry' = [n |-> eln, lines |-> buf]
                           /\ yielded' = Append(yielded,
                                  [file |-> file_no, n |-> eln, lines |-> buf,
                                   at |-> line_no + 1])
    /\ UNCHANGED <<files, regexes, file_no, output>>

\* the line stream is exhausted: the generator returns without a yield and
\* its frame, the buffer with it, is released
EndOfInput ==
    /\ pc = "pull"
    /\ line_no = Len(files[file_no])
    /\ yielded' = exhausted(yielded, file_no, entry_line_no, buffer)
    /\ buffer' = <<>>
    /\ entry_line_no' = 0
    /\ pc' = "open"
    /\ UNCHANGED <<files, regexes, file_no, line_no, entry, output>>

\* filter(make_regex_filter(regexes), entries) tests the entry handed to it
Filter ==
    /\ pc = "yield"
    /\ pc' = IF matches(regexes, entry) THEN "print" ELSE "resume"
    /\ UNCHANGED <<files, regexes, file_no, line_no, buffer, entry_line_no,
                   entry, yielded, output>>

\* the body of the for loop over matches: header, underline, lines, blank line
PrintMatch ==
    /\ pc = "print"
    /\ output' = Append(output, [file |-> file_no, n |-> entry.n,
                                 lines |-> entry.lines, at |-> line_no])
    /\ pc' = "resume"
    /\ UNCHANGED <<files, regexes, file_no, line_no, buffer, entry_line_no,
                   entry, yielded>>

\* the next pull resumes aggregate_entries after its yield
Resume ==
    /\ pc = "resume"
    /\ buffer' = fresh_buffer(buffer)
    /\ pc' = "pull"
    /\ UNCHANGED <<files, regexes, file_no, line_no, entry_line_no, entry,
                   yielded, output>>

Next ==
    \/ OpenFile
    \/ Finish
    \/ ConsumeLine
    \/ EndOfInput
    \/ Filter
    \/ PrintMatch
    \/ Resume

Spec == Init /\ [][Next]_vars

-----------------------------------------------------------------------------
(* Vocabulary of the properties *)

\* the line contains the marker |#] somewhere
HasMarker(line) ==
    \E i \in 1..Len(line) - 2 :
        line[i] = "|" /\ line[i + 1] = "#" /\ line[i + 2] = "]"

\* the line consists of whitespace only
AllWhite(line) == \A i \in 1..Len(line) : line[i] \in Whitespace

SentinelIdx(f) == {i \in 1..Len(f) : HasMarker(f[i])}

Largest(S) == IF S = {} THEN 0 ELSE CHOOSE s \in S : \A t \in S : t <= s

\* the first line of lo..hi that is not whitespace-only
FirstText(f, lo, hi) ==
    CHOOSE i \in lo..hi :
        ~AllWhite(f[i]) /\ \A j \in lo..(i - 1) : AllWhite(f[j])

\* the start line of the entry of file f that ends at its sentinel line e
StartOf(f, e) == FirstText(f, Largest({s \in SentinelIdx(f) : s < e}) + 1, e)

\* f is well-formed entries separated by whitespace-only lines: nothing but
\* whitespace-only lines follows the last sentinel line
WellFormed(f) ==
    \A i \in (Largest(SentinelIdx(f)) + 1)..Len(f) : AllWhite(f[i])

\* no entry of f is longer than the buffer may grow
WithinBound(f) ==
    \A e \in SentinelIdx(f) : e - StartOf(f, e) + 1 <= MaxBuffer

\* the file at position k has been read to its end
Completed(k) == file_no > k \/ (file_no = k /\ pc \in {"open", "done"})

Failed == pc \in {"AssertionError", "UnboundLocalError"}

YieldedOf(k) == SelectSeq(yielded, LAMBDA y : y.file = k)
OutputOf(k) == SelectSeq(output, LAMBDA o : o.file = k)

\* what aggregate_entries yielded for file k is the entries of that file
ExactlyTheEntries(k) ==
    LET f == files[k]
        ys == YieldedOf(k)
    IN  /\ Len(ys) = Cardinality(SentinelIdx(f))
        /\ \A i \in 1..Len(ys) :
              /\ ys[i].at \in SentinelIdx(f)
              /\ ys[i].n = StartOf(f, ys[i].at)
              /\ ys[i].lines = SubSeq(f, ys[i].n, ys[i].at)
              /\ \A j \in 1..(i - 1) : ys[j].at < ys[i].at

\* the text t contains the literal text p
Occurs(p, t) ==
    \E i \in 1..(Len(t) - Len(p) + 1) : SubSeq(t, i, i + Len(p) - 1) = p

\* every pattern occurs within some single line
EveryPatternHitsALine(rs, lines) ==
    \A k \in 1..Len(rs) : \E i \in 1..Len(lines) : Occurs(rs[k], lines[i])

\* every pattern occurs in the lines taken together as one text
EveryPatternHitsTheText(rs, lines) ==
    \A k \in 1..Len(rs) : Occurs(rs[k], Join(lines))

\* the positions in Join(lines) of the last character of each line but the last
Boundaries(lines) == {Len(Join(SubSeq(lines, 1, i))) : i \in 1..(Len(lines) - 1)}

\* p occurs in the joined text, and only across a line boundary
SpansOnly(p, lines) ==
    LET t == Join(lines)
        at == {i \in 1..(Len(t) - Len(p) + 1) : SubSeq(t, i, i + Len(p) - 1) = p}
    IN  /\ at # {}
        /\ \A i \in at : \E b \in Boundaries(lines) : i <= b /\ b < i + Len(p) - 1

\* the i-th yielded entry has been through the filter and, if accepted, printed
Decided(i) == i < Len(yielded) \/ pc \notin {"yield", "print"}

\* the entry y has been printed as it was yielded
Reported(y) ==
    \E j \in 1..Len(output) :
        output[j].file = y.file /\ output[j].n = y.n /\ output[j].lines = y.lines

\* line i of file f arrived while the buffer was empty
ArrivedOnEmpty(f, i) ==
    \A j \in (Largest({s \in SentinelIdx(f) : s < i}) + 1)..i : AllWhite(f[j])

\* the number of whitespace-only lines file f begins with
LeadingBlanks(f) ==
    Cardinality({i \in 1..Len(f) : \A j \in 1..i : AllWhite(f[j])})

-----------------------------------------------------------------------------
\* C1 as claimed: every file made of well-formed entries separated by
\* whitespace-only lines is read to its end without an error and yields
\* exactly its entries, whatever the length of the entries.
C1_AsClaimed ==
    /\ Failed => ~WellFormed(files[file_no])
    /\ \A k \in 1..Len(files) :
          (Completed(k) /\ WellFormed(files[k])) => ExactlyTheEntries(k)

\* C1, amended: every file made of well-formed entries of at most 5000 lines
\* each, separated by whitespace-only lines, is read to its end without an
\* error and yields exactly its entries in input order, each from its first
\* line that is not whitespace-only through its sentinel line, with that first
\* line's 1-based ordinal as start; N leading blank lines followed by one entry
\* yield one entry with start N+1.
C1_Segmentation ==
    /\ Failed => ~(WellFormed(files[file_no]) /\ WithinBound(files[file_no]))
    /\ \A k \in 1..Len(files) :
          (Completed(k) /\ WellFormed(files[k]) /\ WithinBound(files[k])) =>
              /\ ExactlyTheEntries(k)
              /\ (SentinelIdx(files[k]) = {Len(files[k])} =>
                    /\ Len(YieldedOf(k)) = 1
                    /\ YieldedOf(k)[1].n = LeadingBlanks(files[k]) + 1)

\* two entries, the first after a leading blank line, the second after a
\* separating blank line, both yielded
C1_Witness ==
    /\ pc = "done"
    /\ files = << <<BlankLine, EndLine, BlankLine, TextLine, EndLine>> >>
    /\ Len(yielded) = 2
    /\ yielded[1].n = 2 /\ yielded[2].n = 4
    /\ yielded[2].lines = <<TextLine, EndLine>>

-----------------------------------------------------------------------------
\* C2: the filter accepts an entry exactly when every pattern of the set occurs
\* within some single line of it (different patterns may be met by different
\* lines); with no pattern every entry is accepted; an accepted entry is
\* reported with the start and the lines it was yielded with.
C2_Filter ==
    /\ pc = "print" => EveryPatternHitsALine(regexes, entry.lines)
    /\ \A i \in 1..Len(yielded) :
          Decided(i) =>
              (Reported(yielded[i]) <=>
                   EveryPatternHitsALine(regexes, yielded[i].lines))
    /\ regexes = <<>> =>
          \A i \in 1..Len(yielded) : Decided(i) => Reported(yielded[i])

\* two patterns met by two different lines of the reported entry, and a second
\* entry that lacks one of the patterns and is not reported
C2_Witness ==
    /\ pc = "done"
    /\ regexes = << <<"a">>, <<"b">> >>
    /\ files = << <<TextLine, EndLine, EndLine>> >>
    /\ Len(yielded) = 2
    /\ Len(output) = 1
    /\ output[1].lines = <<TextLine, EndLine>>

-----------------------------------------------------------------------------
\* C3 as claimed: an entry is reported exactly when its lines, taken together
\* as one text, contain every pattern of the set.
C3_AsClaimed ==
    \A i \in 1..Len(yielded) :
        Decided(i) =>
            (Reported(yielded[i]) <=>
                 EveryPatternHitsTheText(regexes, yielded[i].lines))

\* C3, amended: the patterns are searched in each line separately.  A reported
\* entry's joined text contains every pattern; when no pattern contains a line
\* terminator the entry is reported exactly when its joined text contains
\* every pattern; an entry is not reported when some pattern occurs in its
\* joined text only across a line boundary.
C3_LineWise ==
    \A i \in 1..Len(yielded) :
        Decided(i) =>
            LET y == yielded[i] IN
            /\ Reported(y) => EveryPatternHitsTheText(regexes, y.lines)
            /\ (\A k \in 1..Len(regexes) : ~Occurs(<<NL>>, regexes[k])) =>
                  (EveryPatternHitsTheText(regexes, y.lines) => Reported(y))
            /\ (\E k \in 1..Len(regexes) : SpansOnly(regexes[k], y.lines)) =>
                  ~Reported(y)

\* an entry whose joined text contains the pattern, across its line boundary,
\* has been filtered out
C3_Witness ==
    /\ pc = "done"
    /\ regexes = << <<"a", NL, "b">> >>
    /\ files = << <<TextLine, EndLine>> >>
    /\ Len(yielded) = 1
    /\ EveryPatternHitsTheText(regexes, yielded[1].lines)
    /\ output = <<>>

-----------------------------------------------------------------------------
\* C4: when the input ends while the buffer is non-empty, the buffer is the
\* run of lines after the last sentinel line, from the first of them that is
\* not whitespace-only; once such a file has been read to its end, what was
\* yielded for it is exactly its complete entries, none reaching past the last
\* sentinel line, and the pipeline has gone on normally; the error outcome
\* arises only from a full buffer.
C4_DanglingTail ==
    /\ (pc = "pull" /\ line_no = Len(files[file_no]) /\ buffer # <<>>) =>
          LET f == files[file_no] IN
          /\ ~WellFormed(f)
          /\ entry_line_no =
                FirstText(f, Largest(SentinelIdx(f)) + 1, Len(f))
          /\ buffer = SubSeq(f, entry_line_no, Len(f))
    /\ \A k \in 1..Len(files) :
          (Completed(k) /\ ~WellFormed(files[k])) =>
              /\ ExactlyTheEntries(k)
              /\ \A i \in 1..Len(yielded) :
                    yielded[i].file = k =>
                        yielded[i].at <= Largest(SentinelIdx(files[k]))
    /\ Failed => (pc = "AssertionError" /\ Len(buffer) = MaxBuffer)

\* a complete entry, then an unterminated tail of two lines, read to the end
C4_Witness ==
    /\ pc = "done"
    /\ files = << <<EndLine, TextLine, BlankLine>> >>
    /\ ~WellFormed(files[1])
    /\ Len(yielded) = 1
    /\ yielded[1].lines = <<EndLine>>

-----------------------------------------------------------------------------
\* C5: the buffer never exceeds the bound; the error is raised at the line
\* that would be the bound-plus-first of a buffer holding no sentinel line,
\* and no yielded entry holds any line of that buffer; a sentinel line that
\* ends an entry within the bound, no earlier entry of the file being beyond
\* it, is yielded without error.
C5_Overflow ==
    /\ Len(buffer) <= MaxBuffer
    /\ \A i \in 1..Len(yielded) : Len(yielded[i].lines) <= MaxBuffer
    /\ pc # "UnboundLocalError"
    /\ pc = "AssertionError" =>
          LET f == files[file_no] IN
          /\ Len(buffer) = MaxBuffer
          /\ line_no = entry_line_no + MaxBuffer
          /\ buffer = SubSeq(f, entry_line_no, line_no - 1)
          /\ \A i \in 1..Len(buffer) : ~HasMarker(buffer[i])
          /\ \A i \in 1..Len(yielded) :
                yielded[i].file = file_no => yielded[i].at < entry_line_no
    /\ file_no >= 1 =>
          LET f == files[file_no] IN
          \A e \in SentinelIdx(f) :
              (/\ e <= line_no
               /\ \A d \in SentinelIdx(f) :
                     d <= e => d - StartOf(f, d) + 1 <= MaxBuffer)
              => /\ \E i \in 1..Len(yielded) :
                       yielded[i].file = file_no /\ yielded[i].at = e
                 /\ (Failed => e < line_no)

\* an entry has been yielded, then a full buffer met one more line
C5_Witness ==
    /\ pc = "AssertionError"
    /\ Len(yielded) = 1
    /\ Len(buffer) = MaxBuffer
    /\ line_no = MaxBuffer + 2

-----------------------------------------------------------------------------
\* C6: every line that arrived between an entry's first retained line and its
\* sentinel line, whitespace-only or not, is in the buffer and in the yielded
\* entry at its place; an entry never begins with a whitespace-only line, and
\* a whitespace-only line that arrived while the buffer was empty is in no
\* yielded entry and not in the buffer.  (The line at which the overflow error
\* is raised is outside this: no entry is accumulating any more.)
C6_BlankLines ==
    /\ \A i \in 1..Len(yielded) :
          LET y == yielded[i] IN
          /\ y.lines = SubSeq(files[y.file], y.n, y.at)
          /\ ~AllWhite(y.lines[1])
    /\ (pc = "pull" /\ buffer # <<>>) =>
          /\ buffer = SubSeq(files[file_no], entry_line_no, line_no)
          /\ ~AllWhite(buffer[1])
    /\ (file_no >= 1 /\ pc \notin {"open", "done"}) =>
          LET f == files[file_no] IN
          \A k \in 1..(IF Failed THEN line_no - 1 ELSE line_no) :
              AllWhite(f[k]) =>
                  (ArrivedOnEmpty(f, k) <=>
                      ~(\/ \E i \in 1..Len(yielded) :
                              /\ yielded[i].file = file_no
                              /\ yielded[i].n <= k /\ k <= yielded[i].at
                        \/ buffer # <<>> /\ entry_line_no <= k))

\* a leading blank line dropped, a blank line inside the entry retained
C6_Witness ==
    /\ pc = "done"
    /\ files = << <<BlankLine, TextLine, BlankLine, EndLine>> >>
    /\ Len(yielded) = 1
    /\ yielded[1].n = 2
    /\ yielded[1].lines = <<TextLine, BlankLine, EndLine>>

-----------------------------------------------------------------------------
\* the yielded entries that have been through the filter
DecidedEntries ==
    IF pc \in {"yield", "print"} THEN SubSeq(yielded, 1, Len(yielded) - 1)
    ELSE yielded

\* C7: the reports are in ascending order of file position, and within one file
\* in strictly ascending order of start line; they are the entries yielded so
\* far that every pattern accepts, each once, in the order they were yielded.
C7_ReportOrder ==
    /\ \A i, j \in 1..Len(output) :
          i < j => \/ output[i].file < output[j].file
                   \/ /\ output[i].file = output[j].file
                      /\ output[i].n < output[j].n
    /\ \A i \in 1..Len(output) : output[i].file \in 1..file_no
    /\ LET acc == SelectSeq(DecidedEntries,
                     LAMBDA y : EveryPatternHitsALine(regexes, y.lines))
       IN  /\ Len(output) = Len(acc)
           /\ \A i \in 1..Len(acc) :
                 /\ output[i].file = acc[i].file
                 /\ output[i].n = acc[i].n
                 /\ output[i].lines = acc[i].lines

\* two reports of the first file, then one of the second
C7_Witness ==
    /\ pc = "done"
    /\ Len(files) = 2
    /\ Len(output) = 3
    /\ output[1].file = 1 /\ output[1].n = 1
    /\ output[2].file = 1 /\ output[2].n = 2
    /\ output[3].file = 2

-----------------------------------------------------------------------------
\* the lines the pipeline holds: while the yielded tuple is downstream the
\* buffer and the tuple's list are one object
Retained ==
    IF pc \in {"yield", "print", "resume"} THEN Len(entry.lines)
    ELSE Len(buffer) + Len(entry.lines)

-----------------------------------------------------------------------------
\* C9: whatever the input, every yielded entry is a non-empty contiguous run
\* of lines of its file with a recorded start line, its last line contains the
\* marker and none of its earlier lines does; the yield never finds the start
\* line unbound.
C9_EntryShape ==
    /\ pc # "UnboundLocalError"
    /\ \A i \in 1..Len(yielded) :
          LET y == yielded[i]
              m == Len(y.lines)
          IN  /\ m >= 1
              /\ y.n >= 1
              /\ y.n + m - 1 <= Len(files[y.file])
              /\ y.lines = SubSeq(files[y.file], y.n, y.n + m - 1)
              /\ HasMarker(y.lines[m])
              /\ \A k \in 1..(m - 1) : ~HasMarker(y.lines[k])

\* an entry of three lines yielded from an input that ends unterminated
C9_Witness ==
    /\ pc = "done"
    /\ files = << <<TextLine, BlankLine, EndLine, TextLine>> >>
    /\ Len(yielded) = 1
    /\ yielded[1].lines = <<TextLine, BlankLine, EndLine>>
    /\ ~WellFormed(files[1])

-----------------------------------------------------------------------------
\* C10: an entry is yielded, filtered and printed when exactly the lines up to
\* its sentinel line have been consumed; while the aggregator is pulling,
\* every sentinel line consumed so far has had its entry yielded, and every
\* accepted one has been printed.
C10_NoLookahead ==
    /\ file_no >= 1 => line_no <= Len(files[file_no])
    /\ pc \in {"yield", "print"} =>
          /\ line_no = entry.n + Len(entry.lines) - 1
          /\ HasMarker(files[file_no][line_no])
    /\ \A i \in 1..Len(yielded) :
          /\ yielded[i].at = yielded[i].n + Len(yielded[i].lines) - 1
          /\ HasMarker(files[yielded[i].file][yielded[i].at])
    /\ \A i \in 1..Len(output) :
          output[i].at = output[i].n + Len(output[i].lines) - 1
    /\ pc = "pull" =>
          /\ \A e \in SentinelIdx(files[file_no]) :
                e <= line_no =>
                    \E i \in 1..Len(yielded) :
                        yielded[i].file = file_no /\ yielded[i].at = e
          /\ \A i \in 1..Len(yielded) :
                EveryPatternHitsALine(regexes, yielded[i].lines) =>
                    Reported(yielded[i])

\* an entry is about to be printed while two lines of the file are unread
C10_Witness ==
    /\ pc = "print"
    /\ line_no = 2
    /\ Len(files[file_no]) = 4
    /\ entry.lines = <<TextLine, EndLine>>
    /\ output = <<>>

====
